---------------------------- MODULE Spec2Model ----------------------------
(***************************************************************************)
(* Model of the car-rental canister (icp_rust_boilerplate_backend/lib.rs). *)
(*                                                                         *)
(* The canister keeps three pieces of stable state: the identifier cell    *)
(* ID_COUNTER and the two ordered maps CAR_STORAGE and                     *)
(* RENTAL_REQUEST_STORAGE.  Every #[ic_cdk::update] / #[ic_cdk::query]     *)
(* entry point is one action; the execution environment runs one entry     *)
(* point at a time, to completion.                                         *)
(*                                                                         *)
(* `call` and `ret` hold the last request and its response, and `hist`     *)
(* is a history variable computed from the requests and responses only     *)
(* (it never feeds back into the canister state).                          *)
(***************************************************************************)
EXTENDS Integers, Sequences, FiniteSets, TLC

VARIABLES ID_COUNTER, CAR_STORAGE, RENTAL_REQUEST_STORAGE, call, ret, hist

state == <<ID_COUNTER, CAR_STORAGE, RENTAL_REQUEST_STORAGE>>
vars == <<ID_COUNTER, CAR_STORAGE, RENTAL_REQUEST_STORAGE, call, ret, hist>>

---------------------------------------------------------------------------
(* Bounds of the exploration and the inputs the entry points are fed.      *)

\* Creations are explored while the counter is below MaxCounter.
MaxCounter == 3

\* Width, in bits, of the model's counter and identifiers (u64 in the
\* program).
CounterBits == 2

\* u64::MAX at the model's width.
U64_MAX == 2 ^ CounterBits - 1

\* Identifiers passed to get_* / update_* / delete_*: every identifier the
\* counter can have issued, and one more that was never issued.
IdArgs == 0 .. MaxCounter

\* (make, model, year) arguments of add_car / update_car; the second one is
\* the boundary input (empty strings, year 0).
CarInputs ==
    { [make |-> "Toyota", model |-> "Corolla", year |-> 2020],
      [make |-> "",       model |-> "",        year |-> 0] }

\* The four variants of RentalStatus.
RentalStatus == {"Pending", "Active", "Completed", "Canceled"}

\* Arguments of add_rental_request / update_rental_request (the two differ
\* in every field).
RentalInputs ==
    { [car_id |-> 0, customer_id |-> 5, start_date |-> 100, end_date |-> 200,
       status |-> "Pending"],
      [car_id |-> 1, customer_id |-> 6, start_date |-> 150, end_date |-> 250,
       status |-> "Active"] }

\* Arguments of the two filtered listings: values some request carries and
\* values no request carries.
CarIdArgs == {0, 1, 2}
CustomerIdArgs == {5, 6, 7}

---------------------------------------------------------------------------
(* Result values.                                                          *)

Ok(v) == [tag |-> "Ok", val |-> v]

\* The entry point panicked: the call is rejected with the panic message
\* and answers no value (the canister traps, and the execution environment
\* discards what the call had written).
Trap(msg) == [tag |-> "Trap", msg |-> msg]

\* Error::NotFound { msg: format!("<what> with id={} not found", id) }
NotFound(what, id) ==
    [tag |-> "NotFound", msg |-> <<what, " with id=", id, " not found">>]

---------------------------------------------------------------------------
(* The stable structures.                                                  *)

\* Cell::get: the value held by the cell.
Cell_get(cell) == cell

Cell_set_returns_new(cell, value) == [cell |-> value, result |-> Ok(value)]

Cell_set_forgets_value(cell, value) == [cell |-> cell, result |-> Ok(cell)]

\* Cell::set(value): stores `value` and hands back Ok(previous value).
Cell_set(cell, value) == [cell |-> value, result |-> Ok(cell)]

\* Cell::set(value) when the value cannot be written to the cell's memory:
\* Err(ValueError::ValueTooLarge), and the cell keeps its value.
Cell_set_fails(cell, value) ==
    [cell |-> cell, result |-> [tag |-> "Err", val |-> "ValueTooLarge"]]

\* An empty StableBTreeMap.
EmptyMap == [k \in {} |-> 0]

\* StableBTreeMap::get
BTreeMap_get(map, key) ==
    IF key \in DOMAIN map THEN [some |-> TRUE, val |-> map[key]]
    ELSE [some |-> FALSE]

\* StableBTreeMap::insert: the entry under `key` is created or replaced.
BTreeMap_insert(map, key, value) ==
    [k \in (DOMAIN map) \cup {key} |-> IF k = key THEN value ELSE map[k]]

\* StableBTreeMap::remove: the map without `key`, and the removed value.
BTreeMap_remove(map, key) ==
    [map |-> [k \in (DOMAIN map) \ {key} |-> map[k]],
     removed |-> BTreeMap_get(map, key)]

FirstKey(map) == CHOOSE k \in DOMAIN map : \A j \in DOMAIN map : k <= j
LastKey(map) == CHOOSE k \in DOMAIN map : \A j \in DOMAIN map : k >= j
Rest(map, key) == [k \in (DOMAIN map) \ {key} |-> map[k]]

RECURSIVE BTreeMap_iter_descending(_)
BTreeMap_iter_descending(map) ==
    IF DOMAIN map = {} THEN <<>>
    ELSE LET k == LastKey(map)
         IN  <<<<k, map[k]>>>> \o BTreeMap_iter_descending(Rest(map, k))

\* StableBTreeMap::iter: the (key, value) pairs in ascending key order.
RECURSIVE BTreeMap_iter(_)
BTreeMap_iter(map) ==
    IF DOMAIN map = {} THEN <<>>
    ELSE LET k == FirstKey(map)
         IN  <<<<k, map[k]>>>> \o BTreeMap_iter(Rest(map, k))

---------------------------------------------------------------------------
(* Storable / BoundedStorable: the Candid encoding of the stored records.  *)

\* BoundedStorable::MAX_SIZE of Car and of RentalRequest, in bytes.
MAX_SIZE == 1024

\* What Encode!(car) writes before the field values: the magic "DIDL", a
\* type table of one entry -- record (0x6c) of five fields, each a field id
\* (the hash of its name, LEB128) and a primitive type code, in increasing
\* order of the ids: id : nat64, model : text, make : text, year : nat32,
\* available : bool -- and the argument list (one argument, of type 0).
Car_header ==
    << 68, 73, 68, 76,
       1, 108, 5,
       219, 183, 1, 120,
       169, 199, 224, 98, 113,
       238, 243, 216, 194, 4, 113,
       189, 147, 159, 130, 5, 121,
       201, 179, 141, 188, 7, 126,
       1, 0 >>

\* Number of bytes of the unsigned LEB128 encoding of n.
RECURSIVE leb128_len(_)
leb128_len(n) == IF n < 128 THEN 1 ELSE 1 + leb128_len(n \div 128)

\* Number of bytes of a text value: its length prefix and its UTF-8 bytes
\* (the model's texts are ASCII, one byte per character).
text_len(t) == leb128_len(Len(t)) + Len(t)

\* Number of bytes of Encode!(car): header, nat64 id, two texts, nat32 year,
\* bool available.
Car_encoded_len(car) ==
    Len(Car_header) + 8 + text_len(car.model) + text_len(car.make) + 4 + 1

\* What Encode!(rental_request) writes before the field values: a type table
\* of two entries -- 0: record of six fields, id : nat64, status : type 1,
\* end_date, customer_id, start_date, car_id : nat64; 1: variant (0x6b) of
\* four null (0x7f) alternatives, Active, Completed, Canceled, Pending, in
\* increasing order of their ids -- and the argument list.
RentalRequest_header ==
    << 68, 73, 68, 76,
       2,
       108, 6,
       219, 183, 1, 120,
       178, 206, 239, 47, 1,
       210, 168, 146, 130, 6, 120,
       220, 164, 169, 169, 7, 120,
       235, 180, 247, 242, 7, 120,
       230, 132, 215, 214, 11, 120,
       107, 4,
       230, 235, 234, 214, 4, 127,
       235, 130, 174, 136, 15, 127,
       249, 168, 223, 198, 15, 127,
       183, 128, 247, 201, 15, 127,
       1, 0 >>

\* The alternatives of RentalStatus in the order of the type table; a value
\* is written as the index of its alternative, counted from 0.
RentalStatus_table == <<"Active", "Completed", "Canceled", "Pending">>

RentalStatus_index(status) ==
    (CHOOSE i \in 1 .. Len(RentalStatus_table) :
         RentalStatus_table[i] = status) - 1

\* Unsigned LEB128 of n.
RECURSIVE leb128(_)
leb128(n) ==
    IF n < 128 THEN <<n>> ELSE <<128 + (n % 128)>> \o leb128(n \div 128)

\* Reads an unsigned LEB128 number at position pos: its value and the
\* position after it.
RECURSIVE leb128_read(_, _)
leb128_read(bytes, pos) ==
    IF bytes[pos] < 128
    THEN [val |-> bytes[pos], next |-> pos + 1]
    ELSE LET more == leb128_read(bytes, pos + 1)
         IN  [val |-> (bytes[pos] - 128) + 128 * more.val,
              next |-> more.next]

\* A fixed-width unsigned integer (nat64: 8 bytes, nat32: 4), least
\* significant byte first.
RECURSIVE le_bytes(_, _)
le_bytes(n, width) ==
    IF width = 0 THEN <<>>
    ELSE <<n % 256>> \o le_bytes(n \div 256, width - 1)

\* Reads a fixed-width unsigned integer at position pos.
RECURSIVE le_read(_, _, _)
le_read(bytes, pos, width) ==
    IF width = 0 THEN 0
    ELSE bytes[pos] + 256 * le_read(bytes, pos + 1, width - 1)

\* A text: the number of its UTF-8 bytes (LEB128), then the bytes.  Here a
\* String is the sequence of its UTF-8 bytes.
text_bytes(t) == leb128(Len(t)) \o t

\* Reads a text at position pos: the text and the position after it.
text_read(bytes, pos) ==
    LET n == leb128_read(bytes, pos)
    IN  [val |-> SubSeq(bytes, n.next, n.next + n.val - 1),
         next |-> n.next + n.val]

Car_to_bytes_in_declaration_order(car) ==
    Car_header
      \o le_bytes(car.id, 8)
      \o text_bytes(car.make)
      \o text_bytes(car.model)
      \o le_bytes(car.year, 4)
      \o <<IF car.available THEN 1 ELSE 0>>

\* Storable::to_bytes of Car: Encode!(self).unwrap().  The fields are
\* written in the order of the type table.
Car_to_bytes(car) ==
    Car_header
      \o le_bytes(car.id, 8)
      \o text_bytes(car.model)
      \o text_bytes(car.make)
      \o le_bytes(car.year, 4)
      \o <<IF car.available THEN 1 ELSE 0>>

\* Storable::from_bytes of Car: Decode!(bytes.as_ref(), Self).unwrap().
\* Bytes that are not the encoding of a Car make unwrap panic.
Car_from_bytes(bytes) ==
    LET start == Len(Car_header) + 1
        model == text_read(bytes, start + 8)
        make  == text_read(bytes, model.next)
    IN  IF /\ Len(bytes) > Len(Car_header)
           /\ SubSeq(bytes, 1, Len(Car_header)) = Car_header
           /\ make.next + 4 = Len(bytes)
           /\ bytes[make.next + 4] \in {0, 1}
        THEN [id        |-> le_read(bytes, start, 8),
              make      |-> make.val,
              model     |-> model.val,
              year      |-> le_read(bytes, make.next, 4),
              available |-> bytes[make.next + 4] = 1]
        ELSE Trap("called Result::unwrap() on an Err value")

\* Storable::to_bytes of RentalRequest.
RentalRequest_to_bytes(rental_request) ==
    RentalRequest_header
      \o le_bytes(rental_request.id, 8)
      \o leb128(RentalStatus_index(rental_request.status))
      \o le_bytes(rental_request.end_date, 8)
      \o le_bytes(rental_request.customer_id, 8)
      \o le_bytes(rental_request.start_date, 8)
      \o le_bytes(rental_request.car_id, 8)

\* Storable::from_bytes of RentalRequest.
RentalRequest_from_bytes(bytes) ==
    LET start == Len(RentalRequest_header) + 1
        index == leb128_read(bytes, start + 8)
    IN  IF /\ Len(bytes) > Len(RentalRequest_header) + 8
           /\ SubSeq(bytes, 1, Len(RentalRequest_header))
                 = RentalRequest_header
           /\ index.val < Len(RentalStatus_table)
           /\ index.next + 31 = Len(bytes)
        THEN [id          |-> le_read(bytes, start, 8),
              car_id      |-> le_read(bytes, index.next + 24, 8),
              customer_id |-> le_read(bytes, index.next + 8, 8),
              start_date  |-> le_read(bytes, index.next + 16, 8),
              end_date    |-> le_read(bytes, index.next, 8),
              status      |-> RentalStatus_table[index.val + 1]]
        ELSE Trap("called Result::unwrap() on an Err value")

\* Number of bytes of Encode!(rental_request): every field has a fixed size.
RentalRequest_encoded_len == Len(RentalRequest_header) + 8 + 1 + 4 * 8

\* StableBTreeMap::insert accepts a value only if its encoding has at most
\* MAX_SIZE bytes; it panics otherwise.
insert_accepts(car) == Car_encoded_len(car) <= MAX_SIZE

\* The text of n copies of the character c.
RECURSIVE Repeat(_, _)
Repeat(c, n) ==
    IF n = 0 THEN ""
    ELSE LET half == Repeat(c, n \div 2)
         IN  IF n % 2 = 0 THEN half \o half ELSE half \o half \o c

\* Length of the longest make that still fits with an empty model: what
\* MAX_SIZE leaves after the header, the fixed-size fields, the empty model
\* and a two-byte length prefix.
LongestMakeLen == MAX_SIZE - (Len(Car_header) + 8 + 1 + 2 + 4 + 1)

\* (make, model, year) arguments whose car is one byte over MAX_SIZE.
OversizeCarInputs ==
    { [make |-> Repeat("x", LongestMakeLen + 1), model |-> "", year |-> 0] }

---------------------------------------------------------------------------
(* History of requests and responses.                                      *)

Creations == {"add_car", "add_rental_request"}

NoWatch == [op |-> "none"]

InitHist ==
    [ issued      |-> <<>>,     \* ids returned by successful creations, in order
      watch       |-> NoWatch,  \* one creation singled out (any one may be): its
                                \* entry point and the record it returned, kept
                                \* until a successful update or delete of that id
      delCars     |-> {},       \* ids for which delete_car returned Ok
      delRentals  |-> {},       \* ids for which delete_rental_request returned Ok
      madeCars    |-> 0,        \* number of successful add_car
      madeRentals |-> 0,        \* number of successful add_rental_request
      goneCars    |-> 0,        \* number of successful delete_car
      goneRentals |-> 0 ]       \* number of successful delete_rental_request

\* hist.watch after a successful update or delete, through entry point
\* `created_by`'s table, of identifier id.
Unwatch(w, created_by, id) ==
    IF w.op = created_by /\ w.rec.id = id THEN NoWatch ELSE w

Log(h, c, r) ==
    CASE c.op = "add_car" /\ r.tag = "Ok" ->
           [h EXCEPT !.issued = Append(@, r.val.id), !.madeCars = @ + 1]
      [] c.op = "add_rental_request" /\ r.tag = "Ok" ->
           [h EXCEPT !.issued = Append(@, r.val.id), !.madeRentals = @ + 1]
      [] c.op = "update_car" /\ r.tag = "Ok" ->
           [h EXCEPT !.watch = Unwatch(@, "add_car", c.id)]
      [] c.op = "update_rental_request" /\ r.tag = "Ok" ->
           [h EXCEPT !.watch = Unwatch(@, "add_rental_request", c.id)]
      [] c.op = "delete_car" /\ r.tag = "Ok" ->
           [h EXCEPT !.watch = Unwatch(@, "add_car", c.id),
                     !.delCars = @ \cup {c.id},
                     !.goneCars = @ + 1]
      [] c.op = "delete_rental_request" /\ r.tag = "Ok" ->
           [h EXCEPT !.watch = Unwatch(@, "add_rental_request", c.id),
                     !.delRentals = @ \cup {c.id},
                     !.goneRentals = @ + 1]
      [] OTHER -> h

\* The histories after request c was answered r: a successful creation may
\* become the watched one when none is watched.
Logs(h, c, r) ==
    LET h1 == Log(h, c, r)
    IN  IF c.op \in Creations /\ r.tag = "Ok" /\ h.watch = NoWatch
        THEN {h1, [h1 EXCEPT !.watch = [op |-> c.op, rec |-> r.val]]}
        ELSE {h1}

\* The entry point was called with request c and answered r.
Respond(c, r) ==
    /\ call' = c
    /\ ret' = r
    /\ hist' \in Logs(hist, c, r)

---------------------------------------------------------------------------
Init ==
    /\ ID_COUNTER = 0
    /\ CAR_STORAGE = EmptyMap
    /\ RENTAL_REQUEST_STORAGE = EmptyMap
    /\ call = [op |-> "init"]
    /\ ret = [tag |-> "None"]
    /\ hist = InitHist

---------------------------------------------------------------------------
(* Entry points.                                                           *)

\* a + b in u64 arithmetic without overflow checks
u64_add_wrapping(a, b) == (a + b) % (U64_MAX + 1)

\* a + b does not fit u64
u64_add_overflows(a, b) == a + b > U64_MAX

next_id_without_increment(counter) ==
    LET current_value == Cell_get(counter)
    IN  Cell_set(counter, current_value)

\* The identifier step shared by add_car and add_rental_request:
\*   let current_value = *counter.borrow().get();
\*   counter.borrow_mut().set(current_value + 1)
\* The entry point unwraps the result (.expect) and uses the value inside
\* as the new record's id.  `current_value + 1` is u64 arithmetic: built
\* without overflow checks (the release profile) it wraps at u64::MAX;
\* built with them the entry point panics there (add_car_overflow_panics,
\* add_rental_request_overflow_panics).
next_id(counter) ==
    LET current_value == Cell_get(counter)
    IN  Cell_set(counter, u64_add_wrapping(current_value, 1))

add_car(make, model, year) ==
    LET set == next_id(ID_COUNTER)
        id  == set.result.val
        car == [id |-> id, make |-> make, model |-> model, year |-> year,
                available |-> TRUE]
    IN  /\ ID_COUNTER' = set.cell
        /\ CAR_STORAGE' = BTreeMap_insert(CAR_STORAGE, id, car)
        /\ UNCHANGED RENTAL_REQUEST_STORAGE
        /\ Respond([op |-> "add_car", make |-> make, model |-> model,
                    year |-> year], Ok(car))

\* add_car in a build with overflow checks, called with the counter at
\* u64::MAX: `current_value + 1` panics before anything is written.
add_car_overflow_panics(make, model, year) ==
    /\ u64_add_overflows(Cell_get(ID_COUNTER), 1)
    /\ UNCHANGED state
    /\ Respond([op |-> "add_car", make |-> make, model |-> model,
                year |-> year], Trap("attempt to add with overflow"))

\* add_car when the counter write fails: .expect("Cannot increment id
\* counter") panics on the Err, before the car is built or inserted.
add_car_counter_write_fails(make, model, year) ==
    LET set == Cell_set_fails(ID_COUNTER,
                              u64_add_wrapping(Cell_get(ID_COUNTER), 1))
    IN  /\ set.result.tag = "Err"
        /\ ID_COUNTER' = set.cell
        /\ UNCHANGED <<CAR_STORAGE, RENTAL_REQUEST_STORAGE>>
        /\ Respond([op |-> "add_car", make |-> make, model |-> model,
                    year |-> year],
                   Trap(<<"Cannot increment id counter", set.result.val>>))

add_car_insert_panics_keeps_counter(make, model, year) ==
    LET set == next_id(ID_COUNTER)
        id  == set.result.val
        car == [id |-> id, make |-> make, model |-> model, year |-> year,
                available |-> TRUE]
    IN  /\ ~insert_accepts(car)
        /\ ID_COUNTER' = set.cell
        /\ UNCHANGED <<CAR_STORAGE, RENTAL_REQUEST_STORAGE>>
        /\ Respond([op |-> "add_car", make |-> make, model |-> model,
                    year |-> year], Trap("Value is too large"))

\* add_car with a car whose encoding exceeds MAX_SIZE: the counter is
\* written, then insert panics.  The panic is a trap, and a trap discards
\* every write of the call, the counter's included.
add_car_insert_panics(make, model, year) ==
    LET set == next_id(ID_COUNTER)
        id  == set.result.val
        car == [id |-> id, make |-> make, model |-> model, year |-> year,
                available |-> TRUE]
    IN  /\ ~insert_accepts(car)
        /\ UNCHANGED state
        /\ Respond([op |-> "add_car", make |-> make, model |-> model,
                    year |-> year], Trap("Value is too large"))

delete_car_cascades(id) ==
    LET rm == BTreeMap_remove(CAR_STORAGE, id)
        kept == {k \in DOMAIN RENTAL_REQUEST_STORAGE :
                    RENTAL_REQUEST_STORAGE[k].car_id # id}
    IN  /\ CAR_STORAGE' = rm.map
        /\ RENTAL_REQUEST_STORAGE' =
               IF rm.removed.some
               THEN [k \in kept |-> RENTAL_REQUEST_STORAGE[k]]
               ELSE RENTAL_REQUEST_STORAGE
        /\ UNCHANGED ID_COUNTER
        /\ Respond([op |-> "delete_car", id |-> id],
                   IF rm.removed.some THEN Ok(<<>>) ELSE NotFound("Car", id))

delete_car_keeps_entry(id) ==
    /\ UNCHANGED state
    /\ Respond([op |-> "delete_car", id |-> id],
               IF BTreeMap_get(CAR_STORAGE, id).some THEN Ok(<<>>)
               ELSE NotFound("Car", id))

delete_car(id) ==
    LET rm == BTreeMap_remove(CAR_STORAGE, id)
    IN  /\ CAR_STORAGE' = rm.map
        /\ UNCHANGED <<ID_COUNTER, RENTAL_REQUEST_STORAGE>>
        /\ Respond([op |-> "delete_car", id |-> id],
                   IF rm.removed.some THEN Ok(<<>>) ELSE NotFound("Car", id))

get_car_result_other_table(id) ==
    LET found == BTreeMap_get(RENTAL_REQUEST_STORAGE, id)
    IN  IF found.some THEN Ok(found.val) ELSE NotFound("Car", id)

\* the answer of get_car(id) in the current state
get_car_result(id) ==
    LET found == BTreeMap_get(CAR_STORAGE, id)
    IN  IF found.some THEN Ok(found.val) ELSE NotFound("Car", id)

get_car(id) ==
    /\ UNCHANGED state
    /\ Respond([op |-> "get_car", id |-> id], get_car_result(id))

\* the answer of get_rental_request(id) in the current state
get_rental_request_result(id) ==
    LET found == BTreeMap_get(RENTAL_REQUEST_STORAGE, id)
    IN  IF found.some THEN Ok(found.val) ELSE NotFound("Rental request", id)

get_rental_request(id) ==
    /\ UNCHANGED state
    /\ Respond([op |-> "get_rental_request", id |-> id],
               get_rental_request_result(id))

\* .iter().map(|(_, v)| v.clone()).collect()
Values(entries) == [i \in 1 .. Len(entries) |-> entries[i][2]]

\* the answer of list_cars() in the current state
list_cars_result == Values(BTreeMap_iter(CAR_STORAGE))

list_cars ==
    /\ UNCHANGED state
    /\ Respond([op |-> "list_cars"], list_cars_result)

\* the answer of list_rental_requests() in the current state
list_rental_requests_result == Values(BTreeMap_iter(RENTAL_REQUEST_STORAGE))

list_rental_requests ==
    /\ UNCHANGED state
    /\ Respond([op |-> "list_rental_requests"], list_rental_requests_result)

add_rental_request_id_from_counter(car_id, customer_id, start_date, end_date, status) ==
    LET set == next_id(ID_COUNTER)
        id  == set.result.val
        rental_request ==
            [id |-> set.cell, car_id |-> car_id, customer_id |-> customer_id,
             start_date |-> start_date, end_date |-> end_date,
             status |-> status]
    IN  /\ ID_COUNTER' = set.cell
        /\ RENTAL_REQUEST_STORAGE' =
               BTreeMap_insert(RENTAL_REQUEST_STORAGE, id, rental_request)
        /\ UNCHANGED CAR_STORAGE
        /\ Respond([op |-> "add_rental_request", car_id |-> car_id,
                    customer_id |-> customer_id, start_date |-> start_date,
                    end_date |-> end_date, status |-> status],
                   Ok(rental_request))

add_rental_request_own_counter(car_id, customer_id, start_date, end_date, status) ==
    LET id  == Cardinality(DOMAIN RENTAL_REQUEST_STORAGE)
        rental_request ==
            [id |-> id, car_id |-> car_id, customer_id |-> customer_id,
             start_date |-> start_date, end_date |-> end_date,
             status |-> status]
    IN  /\ ID_COUNTER' = ID_COUNTER + 1
        /\ RENTAL_REQUEST_STORAGE' =
               BTreeMap_insert(RENTAL_REQUEST_STORAGE, id, rental_request)
        /\ UNCHANGED CAR_STORAGE
        /\ Respond([op |-> "add_rental_request", car_id |-> car_id,
                    customer_id |-> customer_id, start_date |-> start_date,
                    end_date |-> end_date, status |-> status],
                   Ok(rental_request))

add_rental_request(car_id, customer_id, start_date, end_date, status) ==
    LET set == next_id(ID_COUNTER)
        id  == set.result.val
        rental_request ==
            [id |-> id, car_id |-> car_id, customer_id |-> customer_id,
             start_date |-> start_date, end_date |-> end_date,
             status |-> status]
    IN  /\ ID_COUNTER' = set.cell
        /\ RENTAL_REQUEST_STORAGE' =
               BTreeMap_insert(RENTAL_REQUEST_STORAGE, id, rental_request)
        /\ UNCHANGED CAR_STORAGE
        /\ Respond([op |-> "add_rental_request", car_id |-> car_id,
                    customer_id |-> customer_id, start_date |-> start_date,
                    end_date |-> end_date, status |-> status],
                   Ok(rental_request))

\* add_rental_request in a build with overflow checks, called with the
\* counter at u64::MAX.
add_rental_request_overflow_panics(car_id, customer_id, start_date, end_date, status) ==
    /\ u64_add_overflows(Cell_get(ID_COUNTER), 1)
    /\ UNCHANGED state
    /\ Respond([op |-> "add_rental_request", car_id |-> car_id,
                customer_id |-> customer_id, start_date |-> start_date,
                end_date |-> end_date, status |-> status],
               Trap("attempt to add with overflow"))

\* add_rental_request when the counter write fails.
add_rental_request_counter_write_fails(car_id, customer_id, start_date, end_date, status) ==
    LET set == Cell_set_fails(ID_COUNTER,
                              u64_add_wrapping(Cell_get(ID_COUNTER), 1))
    IN  /\ set.result.tag = "Err"
        /\ ID_COUNTER' = set.cell
        /\ UNCHANGED <<CAR_STORAGE, RENTAL_REQUEST_STORAGE>>
        /\ Respond([op |-> "add_rental_request", car_id |-> car_id,
                    customer_id |-> customer_id, start_date |-> start_date,
                    end_date |-> end_date, status |-> status],
                   Trap(<<"Cannot increment id counter", set.result.val>>))

delete_rental_request_releases_id(id) ==
    LET rm == BTreeMap_remove(RENTAL_REQUEST_STORAGE, id)
    IN  /\ RENTAL_REQUEST_STORAGE' = rm.map
        /\ ID_COUNTER' = IF rm.removed.some /\ id + 1 = ID_COUNTER
                         THEN id ELSE ID_COUNTER
        /\ UNCHANGED CAR_STORAGE
        /\ Respond([op |-> "delete_rental_request", id |-> id],
                   IF rm.removed.some THEN Ok(<<>>)
                   ELSE NotFound("Rental request", id))

delete_rental_request_always_ok(id) ==
    LET rm == BTreeMap_remove(RENTAL_REQUEST_STORAGE, id)
    IN  /\ RENTAL_REQUEST_STORAGE' = rm.map
        /\ UNCHANGED <<ID_COUNTER, CAR_STORAGE>>
        /\ Respond([op |-> "delete_rental_request", id |-> id], Ok(<<>>))

delete_rental_request(id) ==
    LET rm == BTreeMap_remove(RENTAL_REQUEST_STORAGE, id)
    IN  /\ RENTAL_REQUEST_STORAGE' = rm.map
        /\ UNCHANGED <<ID_COUNTER, CAR_STORAGE>>
        /\ Respond([op |-> "delete_rental_request", id |-> id],
                   IF rm.removed.some THEN Ok(<<>>)
                   ELSE NotFound("Rental request", id))

\* .iter().filter_map(|(_, request)| if request.car_id == car_id
\*                                   { Some(request.clone()) } else { None })
RECURSIVE filter_map_car_id(_, _)
filter_map_car_id(entries, car_id) ==
    IF entries = <<>> THEN <<>>
    ELSE LET request == Head(entries)[2]
         IN  (IF request.car_id = car_id THEN <<request>> ELSE <<>>)
                 \o filter_map_car_id(Tail(entries), car_id)

\* the answer of list_rental_requests_for_car(car_id) in the current state
list_rental_requests_for_car_result(car_id) ==
    filter_map_car_id(BTreeMap_iter(RENTAL_REQUEST_STORAGE), car_id)

list_rental_requests_for_car(car_id) ==
    /\ UNCHANGED state
    /\ Respond([op |-> "list_rental_requests_for_car", car_id |-> car_id],
               list_rental_requests_for_car_result(car_id))

RECURSIVE filter_map_customer_id_by_car(_, _)
filter_map_customer_id_by_car(entries, customer_id) ==
    IF entries = <<>> THEN <<>>
    ELSE LET request == Head(entries)[2]
         IN  (IF request.car_id = customer_id THEN <<request>> ELSE <<>>)
                 \o filter_map_customer_id_by_car(Tail(entries), customer_id)

\* .iter().filter_map(|(_, request)| if request.customer_id == customer_id
\*                                   { Some(request.clone()) } else { None })
RECURSIVE filter_map_customer_id(_, _)
filter_map_customer_id(entries, customer_id) ==
    IF entries = <<>> THEN <<>>
    ELSE LET request == Head(entries)[2]
         IN  (IF request.customer_id = customer_id THEN <<request>> ELSE <<>>)
                 \o filter_map_customer_id(Tail(entries), customer_id)

\* the answer of list_rental_requests_for_customer(customer_id) in the
\* current state
list_rental_requests_for_customer_result(customer_id) ==
    filter_map_customer_id(BTreeMap_iter(RENTAL_REQUEST_STORAGE), customer_id)

list_rental_requests_for_customer(customer_id) ==
    /\ UNCHANGED state
    /\ Respond([op |-> "list_rental_requests_for_customer",
                customer_id |-> customer_id],
               list_rental_requests_for_customer_result(customer_id))

update_car_closure_rebuilds_car(storage, id, make, model, year) ==
    LET found == BTreeMap_get(storage, id)
    IN  IF found.some
        THEN LET updated_car ==
                     [id |-> id, make |-> make, model |-> model,
                      year |-> year, available |-> FALSE]
             IN  [storage |-> BTreeMap_insert(storage, id, updated_car),
                  result  |-> Ok(updated_car)]
        ELSE [storage |-> storage, result |-> NotFound("Car", id)]

update_car_closure_upsert(storage, id, make, model, year) ==
    LET found == BTreeMap_get(storage, id)
        updated_car ==
            IF found.some
            THEN [found.val EXCEPT !.make = make, !.model = model,
                                   !.year = year]
            ELSE [id |-> id, make |-> make, model |-> model, year |-> year,
                  available |-> TRUE]
    IN  [storage |-> BTreeMap_insert(storage, id, updated_car),
         result  |-> IF found.some THEN Ok(updated_car)
                     ELSE NotFound("Car", id)]

\* The closure run on CAR_STORAGE by update_car: the map afterwards and the
\* result.
update_car_closure(storage, id, make, model, year) ==
    LET found == BTreeMap_get(storage, id)
    IN  IF found.some
        THEN LET updated_car ==
                     [found.val EXCEPT !.make = make, !.model = model,
                                       !.year = year]
             IN  [storage |-> BTreeMap_insert(storage, id, updated_car),
                  result  |-> Ok(updated_car)]
        ELSE [storage |-> storage, result |-> NotFound("Car", id)]

update_car(id, make, model, year) ==
    LET done == update_car_closure(CAR_STORAGE, id, make, model, year)
    IN  /\ CAR_STORAGE' = done.storage
        /\ UNCHANGED <<ID_COUNTER, RENTAL_REQUEST_STORAGE>>
        /\ Respond([op |-> "update_car", id |-> id, make |-> make,
                    model |-> model, year |-> year], done.result)

\* update_car of a stored car with fields whose encoding exceeds MAX_SIZE:
\* insert panics, the stored car stays as it was.
update_car_insert_panics(id, make, model, year) ==
    LET found == BTreeMap_get(CAR_STORAGE, id)
    IN  /\ found.some
        /\ ~insert_accepts([found.val EXCEPT !.make = make, !.model = model,
                                             !.year = year])
        /\ UNCHANGED state
        /\ Respond([op |-> "update_car", id |-> id, make |-> make,
                    model |-> model, year |-> year],
                   Trap("Value is too large"))

update_rental_request_closure_keeps_status(storage, id, car_id, customer_id, start_date, end_date, status) ==
    LET found == BTreeMap_get(storage, id)
    IN  IF found.some
        THEN LET updated_rental_request ==
                     [found.val EXCEPT !.car_id = car_id,
                                       !.customer_id = customer_id,
                                       !.start_date = start_date,
                                       !.end_date = end_date]
             IN  [storage |-> BTreeMap_insert(storage, id,
                                              updated_rental_request),
                  result  |-> Ok(updated_rental_request)]
        ELSE [storage |-> storage, result |-> NotFound("Rental request", id)]

\* The closure run on RENTAL_REQUEST_STORAGE by update_rental_request.
update_rental_request_closure(storage, id, car_id, customer_id, start_date, end_date, status) ==
    LET found == BTreeMap_get(storage, id)
    IN  IF found.some
        THEN LET updated_rental_request ==
                     [found.val EXCEPT !.car_id = car_id,
                                       !.customer_id = customer_id,
                                       !.start_date = start_date,
                                       !.end_date = end_date,
                                       !.status = status]
             IN  [storage |-> BTreeMap_insert(storage, id,
                                              updated_rental_request),
                  result  |-> Ok(updated_rental_request)]
        ELSE [storage |-> storage, result |-> NotFound("Rental request", id)]

update_rental_request(id, car_id, customer_id, start_date, end_date, status) ==
    LET done == update_rental_request_closure(RENTAL_REQUEST_STORAGE, id,
                    car_id, customer_id, start_date, end_date, status)
    IN  /\ RENTAL_REQUEST_STORAGE' = done.storage
        /\ UNCHANGED <<ID_COUNTER, CAR_STORAGE>>
        /\ Respond([op |-> "update_rental_request", id |-> id,
                    car_id |-> car_id, customer_id |-> customer_id,
                    start_date |-> start_date, end_date |-> end_date,
                    status |-> status], done.result)

---------------------------------------------------------------------------
(* One entry point runs at a time.  Creations are explored while the       *)
(* counter is below MaxCounter.                                            *)

Next ==
    \/ \E c \in CarInputs :
          ID_COUNTER < MaxCounter /\ add_car(c.make, c.model, c.year)
    \/ \E r \in RentalInputs :
          ID_COUNTER < MaxCounter
          /\ add_rental_request(r.car_id, r.customer_id, r.start_date,
                                r.end_date, r.status)
    \/ \E id \in IdArgs : delete_car(id)
    \/ \E id \in IdArgs : delete_rental_request(id)
    \/ \E id \in IdArgs, c \in CarInputs :
          update_car(id, c.make, c.model, c.year)
    \/ \E id \in IdArgs, r \in RentalInputs :
          update_rental_request(id, r.car_id, r.customer_id, r.start_date,
                                r.end_date, r.status)
    \/ \E id \in IdArgs : get_car(id)
    \/ \E id \in IdArgs : get_rental_request(id)
    \/ list_cars
    \/ list_rental_requests
    \/ \E v \in CarIdArgs : list_rental_requests_for_car(v)
    \/ \E c \in CustomerIdArgs : list_rental_requests_for_customer(c)

Spec == Init /\ [][Next]_vars

---------------------------------------------------------------------------
(* The canister with a counter cell whose write may fail.                  *)

NextCounterFault ==
    \/ Next
    \/ \E c \in CarInputs :
          add_car_counter_write_fails(c.make, c.model, c.year)
    \/ \E r \in RentalInputs :
          add_rental_request_counter_write_fails(r.car_id, r.customer_id,
                                                 r.start_date, r.end_date,
                                                 r.status)

SpecCounterFault == Init /\ [][NextCounterFault]_vars

---------------------------------------------------------------------------
(* The entry points step by step.  A creation is two steps (the counter    *)
(* write, then the insert) and so is an update of a stored record (the     *)
(* get and clone, then the insert).  Between the two steps the request is  *)
(* in `call` and the entry point's locals are in `ret`, tagged "Pending".  *)
(* Every entry point is a plain fn (none is async, none awaits), so the    *)
(* execution environment starts a call only when none is in flight.        *)

\* The entry points that take two steps.
Stepped == Creations \cup {"update_car", "update_rental_request"}

\* A call has taken its first step and not its second.
InFlight == call.op \in Stepped /\ ret.tag = "Pending"

Dispatchable_during_a_call == TRUE

\* A new call can start.
Dispatchable == ~InFlight

\* let id = ID_COUNTER.with(..).expect(..);
add_car_begin(make, model, year) ==
    LET set == next_id(ID_COUNTER)
    IN  /\ ID_COUNTER' = set.cell
        /\ call' = [op |-> "add_car", make |-> make, model |-> model,
                    year |-> year]
        /\ ret' = [tag |-> "Pending", id |-> set.result.val]
        /\ UNCHANGED <<CAR_STORAGE, RENTAL_REQUEST_STORAGE, hist>>

\* let car = Car {..}; CAR_STORAGE.with(.. insert(id, car.clone())); Ok(car)
add_car_finish ==
    LET car == [id |-> ret.id, make |-> call.make, model |-> call.model,
                year |-> call.year, available |-> TRUE]
    IN  /\ InFlight
        /\ call.op = "add_car"
        /\ CAR_STORAGE' = BTreeMap_insert(CAR_STORAGE, ret.id, car)
        /\ UNCHANGED <<ID_COUNTER, RENTAL_REQUEST_STORAGE>>
        /\ Respond(call, Ok(car))

add_rental_request_begin(car_id, customer_id, start_date, end_date, status) ==
    LET set == next_id(ID_COUNTER)
    IN  /\ ID_COUNTER' = set.cell
        /\ call' = [op |-> "add_rental_request", car_id |-> car_id,
                    customer_id |-> customer_id, start_date |-> start_date,
                    end_date |-> end_date, status |-> status]
        /\ ret' = [tag |-> "Pending", id |-> set.result.val]
        /\ UNCHANGED <<CAR_STORAGE, RENTAL_REQUEST_STORAGE, hist>>

add_rental_request_finish ==
    LET rental_request ==
            [id |-> ret.id, car_id |-> call.car_id,
             customer_id |-> call.customer_id,
             start_date |-> call.start_date, end_date |-> call.end_date,
             status |-> call.status]
    IN  /\ InFlight
        /\ call.op = "add_rental_request"
        /\ RENTAL_REQUEST_STORAGE' =
               BTreeMap_insert(RENTAL_REQUEST_STORAGE, ret.id, rental_request)
        /\ UNCHANGED <<ID_COUNTER, CAR_STORAGE>>
        /\ Respond(call, Ok(rental_request))

\* if let Some(car) = storage.get(&id) { let mut updated_car = car.clone();
\* .. } else { Err(NotFound) }
update_car_begin(id, make, model, year) ==
    LET found == BTreeMap_get(CAR_STORAGE, id)
        c     == [op |-> "update_car", id |-> id, make |-> make,
                  model |-> model, year |-> year]
    IN  /\ UNCHANGED state
        /\ IF found.some
           THEN /\ call' = c
                /\ ret' = [tag |-> "Pending", rec |-> found.val]
                /\ UNCHANGED hist
           ELSE Respond(c, NotFound("Car", id))

\* updated_car.make = make; ..; storage.insert(id, updated_car.clone());
\* Ok(updated_car)
update_car_finish ==
    LET updated_car == [ret.rec EXCEPT !.make = call.make,
                                       !.model = call.model,
                                       !.year = call.year]
    IN  /\ InFlight
        /\ call.op = "update_car"
        /\ CAR_STORAGE' = BTreeMap_insert(CAR_STORAGE, call.id, updated_car)
        /\ UNCHANGED <<ID_COUNTER, RENTAL_REQUEST_STORAGE>>
        /\ Respond(call, Ok(updated_car))

update_rental_request_begin(id, car_id, customer_id, start_date, end_date, status) ==
    LET found == BTreeMap_get(RENTAL_REQUEST_STORAGE, id)
        c     == [op |-> "update_rental_request", id |-> id,
                  car_id |-> car_id, customer_id |-> customer_id,
                  start_date |-> start_date, end_date |-> end_date,
                  status |-> status]
    IN  /\ UNCHANGED state
        /\ IF found.some
           THEN /\ call' = c
                /\ ret' = [tag |-> "Pending", rec |-> found.val]
                /\ UNCHANGED hist
           ELSE Respond(c, NotFound("Rental request", id))

update_rental_request_finish ==
    LET updated_rental_request ==
            [ret.rec EXCEPT !.car_id = call.car_id,
                            !.customer_id = call.customer_id,
                            !.start_date = call.start_date,
                            !.end_date = call.end_date,
                            !.status = call.status]
    IN  /\ InFlight
        /\ call.op = "update_rental_request"
        /\ RENTAL_REQUEST_STORAGE' =
               BTreeMap_insert(RENTAL_REQUEST_STORAGE, call.id,
                               updated_rental_request)
        /\ UNCHANGED <<ID_COUNTER, CAR_STORAGE>>
        /\ Respond(call, Ok(updated_rental_request))

\* A call starts (its first step, or the whole call where it is one step)
\* when a new call can start; a call in flight takes its second step.
NextSteps ==
    \/ \E c \in CarInputs :
          /\ Dispatchable
          /\ ID_COUNTER < MaxCounter
          /\ add_car_begin(c.make, c.model, c.year)
    \/ \E r \in RentalInputs :
          /\ Dispatchable
          /\ ID_COUNTER < MaxCounter
          /\ add_rental_request_begin(r.car_id, r.customer_id, r.start_date,
                                      r.end_date, r.status)
    \/ \E id \in IdArgs, c \in CarInputs :
          Dispatchable /\ update_car_begin(id, c.make, c.model, c.year)
    \/ \E id \in IdArgs, r \in RentalInputs :
          /\ Dispatchable
          /\ update_rental_request_begin(id, r.car_id, r.customer_id,
                                         r.start_date, r.end_date, r.status)
    \/ \E id \in IdArgs : Dispatchable /\ delete_car(id)
    \/ \E id \in IdArgs : Dispatchable /\ delete_rental_request(id)
    \/ \E id \in IdArgs : Dispatchable /\ get_car(id)
    \/ \E id \in IdArgs : Dispatchable /\ get_rental_request(id)
    \/ Dispatchable /\ list_cars
    \/ Dispatchable /\ list_rental_requests
    \/ \E v \in CarIdArgs : Dispatchable /\ list_rental_requests_for_car(v)
    \/ \E c \in CustomerIdArgs :
          Dispatchable /\ list_rental_requests_for_customer(c)
    \/ add_car_finish
    \/ add_rental_request_finish
    \/ update_car_finish
    \/ update_rental_request_finish

SpecSteps == Init /\ [][NextSteps]_vars

---------------------------------------------------------------------------
(* The two Storable implementations on their own: a record is drawn,       *)
(* to_bytes encodes it, from_bytes decodes the bytes.  Strings are the     *)
(* sequences of their UTF-8 bytes; integers stay below 2^31.               *)

\* Strings: "", "T", "Toyota", e-acute (two bytes) and a string of 130 bytes,
\* whose length prefix takes two bytes.
CodecTexts ==
    { <<>>, <<84>>, <<84, 111, 121, 111, 116, 97>>, <<195, 169>>,
      [i \in 1 .. 130 |-> 120] }

\* u64 values: 0, 1, one with two significant bytes, the largest explored.
CodecU64 == {0, 1, 258, 2147483647}

\* u32 values.
CodecU32 == {0, 2020, 305419896}

CodecCars ==
    [id : CodecU64, make : CodecTexts, model : {<<>>, <<67, 111>>},
     year : CodecU32, available : BOOLEAN]

CodecRentalRequests ==
    [id : {0, 258}, car_id : {0, 1}, customer_id : {5, 2147483647},
     start_date : {0, 100}, end_date : {0, 65536}, status : RentalStatus]

InitCodec ==
    /\ ID_COUNTER = 0
    /\ CAR_STORAGE = EmptyMap
    /\ RENTAL_REQUEST_STORAGE = EmptyMap
    /\ hist = InitHist
    /\ ret = [tag |-> "None"]
    /\ \/ \E x \in CodecCars :
              call = [op |-> "value", type |-> "Car", value |-> x]
       \/ \E x \in CodecRentalRequests :
              call = [op |-> "value", type |-> "RentalRequest", value |-> x]

\* Storable::to_bytes of the drawn record.
to_bytes ==
    /\ call.op = "value"
    /\ call' = [call EXCEPT !.op = "to_bytes"]
    /\ ret' = [tag |-> "Bytes",
               bytes |-> IF call.type = "Car"
                         THEN Car_to_bytes(call.value)
                         ELSE RentalRequest_to_bytes(call.value)]
    /\ UNCHANGED <<state, hist>>

\* Storable::from_bytes of the bytes to_bytes produced.
from_bytes ==
    /\ call.op = "to_bytes"
    /\ call' = [call EXCEPT !.op = "from_bytes"]
    /\ ret' = [tag |-> "Value",
               val |-> IF call.type = "Car"
                       THEN Car_from_bytes(ret.bytes)
                       ELSE RentalRequest_from_bytes(ret.bytes)]
    /\ UNCHANGED <<state, hist>>

NextCodec == to_bytes \/ from_bytes

SpecCodec == InitCodec /\ [][NextCodec]_vars

---------------------------------------------------------------------------
(* The canister fed cars of every size.  add_car / update_car of Next are  *)
(* fed CarInputs, which insert accepts.                                    *)

NextOversize ==
    \/ Next
    \/ \E c \in OversizeCarInputs :
          /\ ID_COUNTER < MaxCounter
          /\ add_car_insert_panics(c.make, c.model, c.year)
    \/ \E id \in IdArgs, c \in OversizeCarInputs :
          update_car_insert_panics(id, c.make, c.model, c.year)

SpecOversize == Init /\ [][NextOversize]_vars

---------------------------------------------------------------------------
(* The counter at the end of its range.  Creations are explored, from the  *)
(* fresh store, until the counter has passed u64::MAX and one more id has  *)
(* been handed out; at u64::MAX both builds are explored.                  *)

WrapCreations == U64_MAX + 2

WrapIdArgs == 0 .. U64_MAX

NextWrap ==
    \/ \E c \in CarInputs :
          Len(hist.issued) < WrapCreations /\ add_car(c.make, c.model, c.year)
    \/ \E r \in RentalInputs :
          Len(hist.issued) < WrapCreations
          /\ add_rental_request(r.car_id, r.customer_id, r.start_date,
                                r.end_date, r.status)
    \/ \E c \in CarInputs : add_car_overflow_panics(c.make, c.model, c.year)
    \/ \E r \in RentalInputs :
          add_rental_request_overflow_panics(r.car_id, r.customer_id,
                                             r.start_date, r.end_date,
                                             r.status)
    \/ \E id \in WrapIdArgs : delete_car(id)
    \/ \E id \in WrapIdArgs : delete_rental_request(id)
    \/ \E id \in WrapIdArgs : get_car(id)
    \/ \E id \in WrapIdArgs : get_rental_request(id)

SpecWrap == Init /\ [][NextWrap]_vars

---------------------------------------------------------------------------
(* Properties.                                                             *)

\* The last request was a creation and it succeeded.
Created == call.op \in Creations /\ ret.tag = "Ok"

\* The step is a successful creation.
CreatedStep == call'.op \in Creations /\ ret'.tag = "Ok"

Range(f) == {f[k] : k \in DOMAIN f}

\* C1, as claimed: a successful add_car / add_rental_request returns a
\* record whose id is the counter value after the increment made by the
\* call (so the first creation on a fresh store returns id 1).
C1_IdIsPostIncrement == Created => ret.val.id = ID_COUNTER

\* C1, amended: a successful add_car / add_rental_request returns a record
\* whose id is the value the counter held BEFORE the call's increment; on a
\* fresh store (counter 0) the first creation returns id 0, and an
\* add_rental_request right after that first add_car returns id 1.
C1_IdIsPreIncrement ==
    [][ CreatedStep =>
          /\ ret'.val.id = ID_COUNTER
          /\ (hist.issued = <<>> => ret'.val.id = 0)
          /\ (hist.issued = <<0>> /\ call.op = "add_car"
                 /\ call'.op = "add_rental_request" => ret'.val.id = 1) ]_vars

\* add_car answered id 0 on the fresh store and the add_rental_request
\* right after it answered id 1.
C1_Witness ==
    /\ call.op = "add_rental_request"
    /\ ret.tag = "Ok"
    /\ ret.val.id = 1
    /\ hist.issued = <<0, 1>>
    /\ hist.madeCars = 1
    /\ ID_COUNTER = 2

\* C2: the ids returned by successive successful creations are strictly
\* increasing (hence never returned twice), whichever table each creation
\* targets and whatever was deleted in between.
C2_IdsStrictlyIncreasing ==
    \A i, j \in 1 .. Len(hist.issued) :
        i < j => hist.issued[i] < hist.issued[j]

\* A third creation, after creations in both tables and a deletion.
C2_Witness ==
    /\ Created
    /\ Len(hist.issued) >= 3
    /\ hist.madeCars >= 1
    /\ hist.madeRentals >= 1
    /\ hist.goneCars + hist.goneRentals >= 1

\* C3: the record r returned by a successful add_car (add_rental_request)
\* is what get_car(r.id) (get_rental_request(r.id)) answers, Ok(r), as long
\* as r.id has not been successfully updated or deleted.
C3_ReadBackEqualsCreated ==
    /\ hist.watch.op = "add_car" =>
          LET got == get_car_result(hist.watch.rec.id)
          IN  got.tag = "Ok" /\ got.val = hist.watch.rec
    /\ hist.watch.op = "add_rental_request" =>
          LET got == get_rental_request_result(hist.watch.rec.id)
          IN  got.tag = "Ok" /\ got.val = hist.watch.rec
    /\ (call.op = "get_car" /\ hist.watch.op = "add_car"
           /\ call.id = hist.watch.rec.id) =>
          (ret.tag = "Ok" /\ ret.val = hist.watch.rec)
    /\ (call.op = "get_rental_request" /\ hist.watch.op = "add_rental_request"
           /\ call.id = hist.watch.rec.id) =>
          (ret.tag = "Ok" /\ ret.val = hist.watch.rec)

\* get_rental_request read back an untouched request after two more
\* creations and a deletion in the other table.
C3_Witness ==
    /\ call.op = "get_rental_request"
    /\ hist.watch.op = "add_rental_request"
    /\ call.id = hist.watch.rec.id
    /\ ret.tag = "Ok"
    /\ ID_COUNTER >= hist.watch.rec.id + 3
    /\ hist.goneCars >= 1

\* C4: once delete_car(id) (delete_rental_request(id)) has returned Ok,
\* get_car(id) (get_rental_request(id)) answers NotFound in every later
\* state.
C4_DeletedStaysNotFound ==
    /\ \A id \in hist.delCars : get_car_result(id).tag = "NotFound"
    /\ \A id \in hist.delRentals :
          get_rental_request_result(id).tag = "NotFound"
    /\ (call.op = "get_car" /\ call.id \in hist.delCars) =>
          ret.tag = "NotFound"
    /\ (call.op = "get_rental_request" /\ call.id \in hist.delRentals) =>
          ret.tag = "NotFound"

\* get_car of a deleted id, with every creation the bound allows done and a
\* car created after the deleted one in the map.
C4_Witness ==
    /\ call.op = "get_car"
    /\ call.id \in hist.delCars
    /\ ret = NotFound("Car", call.id)
    /\ ID_COUNTER >= 3
    /\ \E k \in DOMAIN CAR_STORAGE : k > call.id

\* C5: update_car / update_rental_request with an id that is not a key of
\* its map returns NotFound and leaves both maps and the counter as they
\* were.
C5_UpdateAbsentChangesNothing ==
    [][ /\ (call'.op = "update_car" /\ call'.id \notin DOMAIN CAR_STORAGE) =>
              (ret'.tag = "NotFound" /\ UNCHANGED state)
        /\ (call'.op = "update_rental_request"
               /\ call'.id \notin DOMAIN RENTAL_REQUEST_STORAGE) =>
              (ret'.tag = "NotFound" /\ UNCHANGED state) ]_vars

\* update_car was refused for an id that is a key of the other map.
C5_Witness ==
    /\ call.op = "update_car"
    /\ ret = NotFound("Car", call.id)
    /\ call.id \in DOMAIN RENTAL_REQUEST_STORAGE
    /\ CAR_STORAGE # EmptyMap

C7_DeleteRemovesExactlyOne ==
    [][ /\ (call'.op = "delete_car" /\ call'.id \notin DOMAIN CAR_STORAGE) =>
              (ret'.tag = "NotFound" /\ UNCHANGED state)
        /\ (call'.op = "delete_car" /\ call'.id \in DOMAIN CAR_STORAGE) =>
              /\ ret' = Ok(<<>>)
              /\ DOMAIN CAR_STORAGE' = (DOMAIN CAR_STORAGE) \ {call'.id}
              /\ \A k \in DOMAIN CAR_STORAGE' :
                    CAR_STORAGE'[k] = CAR_STORAGE[k]
        /\ (call'.op = "delete_rental_request"
               /\ call'.id \notin DOMAIN RENTAL_REQUEST_STORAGE) =>
              (ret'.tag = "NotFound" /\ UNCHANGED state)
        /\ (call'.op = "delete_rental_request"
               /\ call'.id \in DOMAIN RENTAL_REQUEST_STORAGE) =>
              /\ ret' = Ok(<<>>)
              /\ DOMAIN RENTAL_REQUEST_STORAGE' =
                     (DOMAIN RENTAL_REQUEST_STORAGE) \ {call'.id}
              /\ \A k \in DOMAIN RENTAL_REQUEST_STORAGE' :
                    RENTAL_REQUEST_STORAGE'[k] = RENTAL_REQUEST_STORAGE[k]
      ]_vars

\* delete_rental_request removed one request and another one remains.
C7_Witness ==
    /\ call.op = "delete_rental_request"
    /\ ret = Ok(<<>>)
    /\ call.id \in hist.delRentals
    /\ RENTAL_REQUEST_STORAGE # EmptyMap

\* C8: per table, and so in total, the length of the listing equals the
\* number of successful creations minus the number of successful deletions.
C8_ListLengthIsCreationsMinusDeletions ==
    /\ Len(list_cars_result) = hist.madeCars - hist.goneCars
    /\ Len(list_rental_requests_result) = hist.madeRentals - hist.goneRentals
    /\ Len(list_cars_result) + Len(list_rental_requests_result)
          = (hist.madeCars + hist.madeRentals)
               - (hist.goneCars + hist.goneRentals)

\* Two cars and a request were created and one car deleted.
C8_Witness ==
    /\ hist.madeCars = 2
    /\ hist.goneCars = 1
    /\ hist.madeRentals = 1
    /\ Len(list_cars_result) = 1
    /\ Len(list_rental_requests_result) = 1

\* `list` holds every value of `map` exactly once, in strictly ascending
\* order of id.
ListsMap(list, map) ==
    /\ \A i, j \in 1 .. Len(list) : i < j => list[i].id < list[j].id
    /\ {list[i] : i \in 1 .. Len(list)} = Range(map)
    /\ \A k \in DOMAIN map :
          Cardinality({i \in 1 .. Len(list) : list[i] = map[k]}) = 1

\* C9: list_cars() / list_rental_requests() return every entry of their
\* map, as it is at the time of the call, exactly once and in strictly
\* ascending order of id.
C9_ListIsAscendingAndComplete ==
    /\ ListsMap(list_cars_result, CAR_STORAGE)
    /\ ListsMap(list_rental_requests_result, RENTAL_REQUEST_STORAGE)
    /\ call.op = "list_cars" => ListsMap(ret, CAR_STORAGE)
    /\ call.op = "list_rental_requests" =>
          ListsMap(ret, RENTAL_REQUEST_STORAGE)

\* list_cars listed two cars whose ids are not consecutive.
C9_Witness ==
    /\ call.op = "list_cars"
    /\ Len(ret) = 2
    /\ ret[1].id + 1 < ret[2].id

\* C10: for every v, list_rental_requests_for_car(v) is the subsequence of
\* list_rental_requests() of the requests with car_id = v, and
\* list_rental_requests_for_customer(c) the subsequence of those with
\* customer_id = c, in every reachable state (so also after
\* update_rental_request changed those fields).
C10_FilteredListIsSubsequence ==
    /\ \A v \in CarIdArgs :
          list_rental_requests_for_car_result(v) =
              SelectSeq(list_rental_requests_result,
                        LAMBDA r : r.car_id = v)
    /\ \A c \in CustomerIdArgs :
          list_rental_requests_for_customer_result(c) =
              SelectSeq(list_rental_requests_result,
                        LAMBDA r : r.customer_id = c)
    /\ call.op = "list_rental_requests_for_car" =>
          ret = SelectSeq(list_rental_requests_result,
                          LAMBDA r : r.car_id = call.car_id)
    /\ call.op = "list_rental_requests_for_customer" =>
          ret = SelectSeq(list_rental_requests_result,
                          LAMBDA r : r.customer_id = call.customer_id)

\* list_rental_requests_for_customer returned one of two stored requests,
\* and not the first one of the full listing.
C10_Witness ==
    /\ call.op = "list_rental_requests_for_customer"
    /\ Len(ret) = 1
    /\ Len(list_rental_requests_result) = 2
    /\ ret[1] = list_rental_requests_result[2]

\* C12: every entry of either map is stored under the key equal to the id
\* field of its value.
C12_KeyEqualsEmbeddedId ==
    /\ \A k \in DOMAIN CAR_STORAGE : CAR_STORAGE[k].id = k
    /\ \A k \in DOMAIN RENTAL_REQUEST_STORAGE :
          RENTAL_REQUEST_STORAGE[k].id = k

\* Both maps hold entries, and an update has just rewritten one of them.
C12_Witness ==
    /\ call.op = "update_rental_request"
    /\ ret.tag = "Ok"
    /\ RENTAL_REQUEST_STORAGE[call.id].id = call.id
    /\ CAR_STORAGE # EmptyMap
    /\ hist.goneCars + hist.goneRentals >= 1

\* C13: no id is at once a key of the vehicle map and a key of the
\* rental-request map.
C13_KeySetsDisjoint ==
    (DOMAIN CAR_STORAGE) \cap (DOMAIN RENTAL_REQUEST_STORAGE) = {}

\* Two cars and a request are stored, the request created between the cars.
C13_Witness ==
    /\ DOMAIN CAR_STORAGE = {0, 2}
    /\ DOMAIN RENTAL_REQUEST_STORAGE = {1}

\* The step ran one of the entry points in `ops`.
Ran(ops) == call'.op \in ops

\* C14: add_car, update_car and delete_car leave the rental-request map
\* unchanged, add_rental_request, update_rental_request and
\* delete_rental_request leave the vehicle map unchanged, and delete_car(v)
\* leaves the answer of list_rental_requests_for_car(v) as it was.
C14_MapsAreIndependent ==
    [][ /\ Ran({"add_car", "update_car", "delete_car"}) =>
              UNCHANGED RENTAL_REQUEST_STORAGE
        /\ Ran({"add_rental_request", "update_rental_request",
                "delete_rental_request"}) =>
              UNCHANGED CAR_STORAGE
        /\ Ran({"delete_car"}) =>
              filter_map_car_id(BTreeMap_iter(RENTAL_REQUEST_STORAGE'),
                                call'.id) =
                  filter_map_car_id(BTreeMap_iter(RENTAL_REQUEST_STORAGE),
                                    call'.id) ]_vars

\* delete_car(v) removed a car that a stored request refers to.
C14_Witness ==
    /\ call.op = "delete_car"
    /\ ret = Ok(<<>>)
    /\ list_rental_requests_for_car_result(call.id) # <<>>

\* C15: the counter changes only in a successful add_car /
\* add_rental_request, by exactly +1; every other call, successful or
\* not, leaves it unchanged (so it never decreases).
C15_CounterStepsByOneOnCreation ==
    [][ /\ CreatedStep => ID_COUNTER' = ID_COUNTER + 1
        /\ ~CreatedStep => ID_COUNTER' = ID_COUNTER ]_vars

\* A deletion succeeded between two creations and left the counter alone.
C15_Witness ==
    /\ Created
    /\ ID_COUNTER = 2
    /\ hist.goneRentals = 1
    /\ hist.madeRentals = 1

\* C16: a vehicle is created with available = TRUE and no step changes the
\* available field or the id field of a stored vehicle, so every stored
\* vehicle has available = TRUE.
C16_AvailableAndIdNeverChange ==
    [][ \A k \in DOMAIN CAR_STORAGE' :
           /\ CAR_STORAGE'[k].available = TRUE
           /\ k \in DOMAIN CAR_STORAGE =>
                 /\ CAR_STORAGE'[k].available = CAR_STORAGE[k].available
                 /\ CAR_STORAGE'[k].id = CAR_STORAGE[k].id ]_vars

\* update_car rewrote make, model and year of a car, which is still
\* available.
C16_Witness ==
    /\ call.op = "update_car"
    /\ ret.tag = "Ok"
    /\ CAR_STORAGE[call.id].available = TRUE
    /\ CAR_STORAGE[call.id].make = call.make
    /\ \E k \in DOMAIN CAR_STORAGE : CAR_STORAGE[k].make # call.make

\* C20: `current_value + 1` never wraps the counter around: a creation
\* called with the counter at its maximum does not reset the counter to a
\* smaller value, does not return an id that was returned before and does
\* not overwrite an existing entry.
C20_CounterNeverWraps ==
    [][ Ran(Creations) =>
          /\ ID_COUNTER' >= ID_COUNTER
          /\ ret'.tag = "Ok" =>
                /\ \A i \in 1 .. Len(hist.issued) :
                      hist.issued[i] # ret'.val.id
                /\ ret'.val.id \notin
                      (DOMAIN CAR_STORAGE) \cup (DOMAIN RENTAL_REQUEST_STORAGE)
      ]_vars

\* C11: an add_car / add_rental_request whose counter write fails (in
\* SpecCounterFault a creation fails in no other way) returns the error
\* value InvalidInput to its caller, without panicking, and changes neither
\* map.
C11_CounterFailureReturnsInvalidInput ==
    [][ (Ran(Creations) /\ ret'.tag # "Ok") =>
          /\ ret'.tag = "InvalidInput"
          /\ UNCHANGED <<CAR_STORAGE, RENTAL_REQUEST_STORAGE>> ]_vars

\* An add_car whose insert panicked for size.
InsertFailed == Ran({"add_car"}) /\ ret'.tag = "Trap"

\* C17 as stated: when the insert of a creation fails after the counter was
\* incremented, no entry is stored and the counter stays advanced, so that
\* the identifier is skipped.
C17_FailedInsertSkipsId ==
    [][ InsertFailed =>
          /\ UNCHANGED <<CAR_STORAGE, RENTAL_REQUEST_STORAGE>>
          /\ ID_COUNTER' = ID_COUNTER + 1 ]_vars

\* C17: when the insert of a creation fails because the car's encoding
\* exceeds MAX_SIZE, the call traps: no entry is stored, nothing oversize
\* or truncated is in the map, and the counter is back at its value from
\* before the call, so that the identifier the failed call drew is the one
\* the next successful creation returns.
C17_FailedInsertRestoresCounter ==
    [][ /\ InsertFailed =>
              /\ ~insert_accepts([id |-> ID_COUNTER, make |-> call'.make,
                                  model |-> call'.model, year |-> call'.year,
                                  available |-> TRUE])
              /\ UNCHANGED <<CAR_STORAGE, RENTAL_REQUEST_STORAGE>>
              /\ ID_COUNTER' = ID_COUNTER
        /\ \A k \in DOMAIN CAR_STORAGE' :
              /\ insert_accepts(CAR_STORAGE'[k])
              /\ k \notin DOMAIN CAR_STORAGE =>
                    /\ CAR_STORAGE'[k].make = call'.make
                    /\ CAR_STORAGE'[k].model = call'.model
        /\ (Ran(Creations) /\ ret'.tag = "Ok") => ret'.val.id = ID_COUNTER
      ]_vars

\* An oversize add_car trapped after two creations.
C17_Witness ==
    /\ call.op = "add_car"
    /\ ret.tag = "Trap"
    /\ Len(call.make) > LongestMakeLen
    /\ ID_COUNTER = 2
    /\ Len(hist.issued) = 2

C19_RoundTrip ==
    /\ call.op = "from_bytes" =>
          /\ ret.val = call.value
          /\ \A f \in DOMAIN call.value : ret.val[f] = call.value[f]
    /\ call.op = "to_bytes" =>
          Len(ret.bytes) = IF call.type = "Car"
                           THEN Car_encoded_len(call.value)
                           ELSE RentalRequest_encoded_len

\* A car with empty make and model and year 0 came back from its bytes.
C19_Witness ==
    /\ call.op = "from_bytes"
    /\ call.type = "Car"
    /\ call.value.make = <<>>
    /\ call.value.model = <<>>
    /\ call.value.year = 0
    /\ call.value.id = 258
    /\ ret.tag = "Value"

===========================================================================
